---- MODULE Spec2Model ----
(***************************************************************************)
(* A model of feilian/etree_tools.py: structural addressing of the nodes   *)
(* of an lxml tree, the sanitizer (clean_html), the address-set reducer    *)
(* (deduplicate_to_prune), the inclusion pruner (extraction_based_pruning) *)
(* and the token-budget pruner (prune_by_tokens).                          *)
(*                                                                         *)
(* A Python str is a sequence of one-character strings, so that            *)
(* str.startswith, str.split, "/".join, sorted and the f-string formatting *)
(* of an ordinal are computed as Python computes them.                     *)
(***************************************************************************)
EXTENDS Integers, Sequences, FiniteSets, TLC

VARIABLES
    pc,          \* position of the running call: "start", "call", "once", "twice", "done", "error"
    tree,        \* the tree being mutated in place
    orig,        \* the tree as it was handed to the operation
    prev,        \* the tree after the first of two passes
    ele,         \* prune_by_tokens: path (child indexes from the root) of the current `ele`
    max_tokens,  \* prune_by_tokens: the current call's max_tokens
    reversed,    \* prune_by_tokens: the direction flag
    tokenizer,   \* prune_by_tokens: which token counter is in use
    calls,       \* prune_by_tokens: the invocations made so far, outermost first
    xpaths,      \* the list of addresses handed in (xpaths / includes)
    result,      \* the value returned (a list)
    is_tree      \* traverse: TRUE when handed an _ElementTree, FALSE for an _Element

vars == <<pc, tree, orig, prev, ele, max_tokens, reversed, tokenizer, calls,
          xpaths, result, is_tree>>

----------------------------------------------------------------------------
(* Bounds of the model. *)

\* longest list handed to deduplicate_to_prune
MaxXPaths == 3
\* most children of the root of a tree whose elements are addressed
MaxKids == 3

----------------------------------------------------------------------------
(* Python strings. *)

\* The characters in use, in code-point order: '/' < digits < '[' < ']' < letters.
Alphabet ==
    <<"/", "0", "1", "2", "3", "4", "5", "6", "7", "8", "9", "[", "]",
      "a", "b", "c", "d", "e", "f", "g", "h", "i", "j", "k", "l", "m",
      "n", "o", "p", "q", "r", "s", "t", "u", "v", "w", "x", "y", "z">>

Ord(c) == CHOOSE i \in 1..Len(Alphabet) : Alphabet[i] = c

\* s < t for two str, as Python compares them (by code point, a proper prefix first)
RECURSIVE StrLess(_, _)
StrLess(s, t) ==
    IF t = <<>> THEN FALSE
    ELSE IF s = <<>> THEN TRUE
    ELSE IF Head(s) = Head(t) THEN StrLess(Tail(s), Tail(t))
    ELSE Ord(Head(s)) < Ord(Head(t))

\* s.startswith(p)
StartsWith(s, p) == Len(p) <= Len(s) /\ SubSeq(s, 1, Len(p)) = p

\* s.split("/")
RECURSIVE Split(_)
Split(s) ==
    IF \A i \in 1..Len(s) : s[i] # "/" THEN <<s>>
    ELSE LET i == CHOOSE k \in 1..Len(s) :
                      s[k] = "/" /\ \A m \in 1..(k - 1) : s[m] # "/"
         IN  <<SubSeq(s, 1, i - 1)>> \o Split(SubSeq(s, i + 1, Len(s)))

\* "/".join(parts)
RECURSIVE Join(_)
Join(parts) ==
    IF parts = <<>> THEN <<>>
    ELSE IF Len(parts) = 1 THEN parts[1]
    ELSE parts[1] \o <<"/">> \o Join(Tail(parts))

\* str(n) for n >= 0
RECURSIVE Digits(_)
Digits(n) ==
    IF n < 10 THEN <<Alphabet[n + 2]>>
    ELSE Digits(n \div 10) \o <<Alphabet[(n % 10) + 2]>>

\* sorted(xs) for a list of str
RECURSIVE Insert(_, _)
Insert(x, xs) ==
    IF xs = <<>> THEN <<x>>
    ELSE IF StrLess(x, Head(xs)) THEN <<x>> \o xs
    ELSE <<Head(xs)>> \o Insert(x, Tail(xs))

RECURSIVE Sorted(_)
Sorted(xs) ==
    IF xs = <<>> THEN <<>>
    ELSE Insert(xs[Len(xs)], Sorted(SubSeq(xs, 1, Len(xs) - 1)))

\* the lists of length at most n over the set S
RECURSIVE ListsUpTo(_, _)
ListsUpTo(S, n) ==
    IF n = 0 THEN {<<>>}
    ELSE LET shorter == ListsUpTo(S, n - 1)
         IN  shorter \cup {Append(l, x) : l \in {m \in shorter : Len(m) = n - 1}, x \in S}

Range(f) == {f[i] : i \in DOMAIN f}

----------------------------------------------------------------------------
(* lxml trees. *)

\* An optional str: None, or the str itself
None == <<>>
Some(s) == <<s>>

NoAttrib == [k \in {} |-> ""]

\* An etree._Element: tag, attrib, text, tail and the child elements in document
\* order.  The tail travels with its element (lxml keeps it on the element).
Element(tag, attrib, text, tail, children) ==
    [tag |-> tag, attrib |-> attrib, text |-> text, tail |-> tail, children |-> children]

\* ele.clear() followed by ele.text = "": clear() drops the children, the
\* attributes, the text and the tail
Blank(node) == Element(node.tag, NoAttrib, Some(<<>>), None, <<>>)

\* the element reached from `root` by the child indexes of `path`
RECURSIVE NodeAt(_, _)
NodeAt(root, path) ==
    IF path = <<>> THEN root ELSE NodeAt(root.children[Head(path)], Tail(path))

HasNode(root, path) ==
    \A n \in 1..Len(path) :
        path[n] \in 1..Len(NodeAt(root, SubSeq(path, 1, n - 1)).children)

\* `root` with the element at `path` replaced by `new`
RECURSIVE ReplaceAt(_, _, _)
ReplaceAt(root, path, new) ==
    IF path = <<>> THEN new
    ELSE [root EXCEPT !.children[Head(path)] = ReplaceAt(@, Tail(path), new)]

\* the paths of all elements of the tree
RECURSIVE Paths(_)
Paths(root) ==
    {<<>>} \cup UNION {{<<i>> \o q : q \in Paths(root.children[i])} :
                          i \in 1..Len(root.children)}

\* the concatenation of a list of lists
RECURSIVE Concat(_)
Concat(ls) == IF ls = <<>> THEN <<>> ELSE Head(ls) \o Concat(Tail(ls))

----------------------------------------------------------------------------
(* 4.1 Address computer. *)

\* tag_counts[ele.tag] of the child at index i
TagCount(children, i) ==
    Cardinality({j \in 1..Len(children) : children[j].tag = children[i].tag})

\* tag_order[ele.tag] when the loop reaches the child at index i
TagOrder(children, i) ==
    Cardinality({j \in 1..(i - 1) : children[j].tag = children[i].tag})

\* new_xpath of the child at index i: f"{xpath}/{ele.tag}", with "[k]" appended
\* when the tag occurs more than once among the children
ChildXPath(xpath, children, i) ==
    IF TagCount(children, i) > 1
    THEN xpath \o <<"/">> \o children[i].tag \o <<"[">>
               \o Digits(TagOrder(children, i) + 1) \o <<"]">>
    ELSE xpath \o <<"/">> \o children[i].tag

\* list(_traverse(root, xpath)): the (ele, xpath) pairs in the order they are
\* yielded; an element is named by its path from the traversal root.  Each child
\* is yielded by its own generator's last statement and again by the loop.
RECURSIVE _traverse(_, _, _)
_traverse(root, path, xpath) ==
    Concat([i \in 1..Len(root.children) |->
               _traverse(root.children[i], path \o <<i>>,
                         ChildXPath(xpath, root.children, i))
               \o <<[ele |-> path \o <<i>>,
                     xpath |-> ChildXPath(xpath, root.children, i)]>>])
    \o <<[ele |-> path, xpath |-> xpath]>>

HtmlTag == <<"h", "t", "m", "l">>

\* traverse(tree) raises ValueError for an _ElementTree whose root is not html
TraverseRaises(root, isTree) == isTree /\ root.tag # HtmlTag

\* list(traverse(tree))
traverse(root, isTree) ==
    IF isTree THEN _traverse(root, <<>>, <<"/">> \o HtmlTag)
    ELSE _traverse(root, <<>>, <<"/">> \o root.tag)

----------------------------------------------------------------------------
(* 4.3 Address-set reducer. *)

\* parent_xpath(xpath)
parent_xpath(xpath) ==
    LET parts == Split(xpath) IN Join(SubSeq(parts, 1, Len(parts) - 1))

\* remove_indexes after both loops
RemoveIndexes(xs) ==
    {j \in 1..Len(xs) : \E i \in 1..(j - 1) : StartsWith(xs[j], xs[i])}

\* the returned list filtered from the sorted list
RECURSIVE Keep(_, _, _)
Keep(xs, drop, i) ==
    IF i > Len(xs) THEN <<>>
    ELSE (IF i \in drop THEN <<>> ELSE <<xs[i]>>) \o Keep(xs, drop, i + 1)

deduplicate_to_prune(xs) ==
    LET sorted == Sorted(xs) IN Keep(sorted, RemoveIndexes(sorted), 1)

----------------------------------------------------------------------------
(* 4.4 Inclusion pruner. *)

\* prune_by_xpath(ele, xpath, includes): the element afterwards and the value returned
prune_by_xpath(node, xpath, includes) ==
    LET is_in_path == \E n \in 1..Len(includes) : StartsWith(includes[n], xpath)
        is_contained == \E n \in 1..Len(includes) : StartsWith(xpath, includes[n])
        include_parent ==
            \E n \in 1..Len(includes) : StartsWith(includes[n], parent_xpath(xpath))
    IN  IF ~is_in_path /\ ~is_contained /\ include_parent
        THEN [ele |-> Blank(node), continue |-> FALSE]
        ELSE [ele |-> node, continue |-> TRUE]

\* The traversal as it would be if an element that prune_by_xpath blanks were
\* detached from its parent instead of being emptied in place.
RECURSIVE PreOrderDetaching(_, _, _)
PreOrderDetaching(node, xpath, includes) ==
    LET kids == node.children
        addr(i) == ChildXPath(xpath, kids, i)
    IN  [node EXCEPT !.children =
            Concat([i \in 1..Len(kids) |->
                IF prune_by_xpath(kids[i], addr(i), includes).continue
                THEN <<PreOrderDetaching(kids[i], addr(i), includes)>>
                ELSE <<>>])]

\* _pre_order_traversal(tree, xpath, func) with func = prune_by_xpath: func acts
\* on the element first, its return value is discarded, and the children that
\* the element has afterwards are visited with their addresses
RECURSIVE _pre_order_traversal(_, _, _)
_pre_order_traversal(node, xpath, includes) ==
    LET visited == prune_by_xpath(node, xpath, includes).ele
        kids == visited.children
    IN  [visited EXCEPT !.children =
            [i \in 1..Len(kids) |->
                _pre_order_traversal(kids[i], ChildXPath(xpath, kids, i), includes)]]

\* pre_order_traversal(tree, func): the base address is the root's own tag
pre_order_traversal(root, includes) ==
    _pre_order_traversal(root, <<"/">> \o root.tag, includes)

\* extraction_based_pruning(tree, includes): the tree afterwards
extraction_based_pruning(root, includes) == pre_order_traversal(root, includes)

----------------------------------------------------------------------------
(* Serialization. *)

\* the attribute names in the order they are written out
AttribOrder == <<"class", "href", "id", "src", "style">>

\* the non-str tag of a comment node: the factory function etree.Comment
CommentTag == <<"Comment">>

\* ' name="value"' for every attribute the element carries
AttribString(attrib) ==
    Concat([n \in 1..Len(AttribOrder) |->
               IF AttribOrder[n] \in DOMAIN attrib
               THEN <<" ", AttribOrder[n], "=", "\"">> \o attrib[AttribOrder[n]] \o <<"\"">>
               ELSE <<>>])

\* the str an optional str contributes to the output
TextOf(opt) == IF opt = None THEN <<>> ELSE opt[1]

\* to_string(ele): etree.tostring of the element, its subtree and its tail.  An
\* element with neither children nor text (text None) is written <tag/>, one
\* whose text is "" is written <tag></tag>.
RECURSIVE to_string(_)
to_string(node) ==
    (IF node.tag = CommentTag
     THEN <<"<", "!", "-", "-">> \o TextOf(node.text) \o <<"-", "-", ">">>
     ELSE IF node.children = <<>> /\ node.text = None
     THEN <<"<">> \o node.tag \o AttribString(node.attrib) \o <<"/", ">">>
     ELSE <<"<">> \o node.tag \o AttribString(node.attrib) \o <<">">>
          \o TextOf(node.text)
          \o Concat([i \in 1..Len(node.children) |-> to_string(node.children[i])])
          \o <<"<", "/">> \o node.tag \o <<">">>)
    \o TextOf(node.tail)

----------------------------------------------------------------------------
(* 4.2 Sanitizer. *)

ScriptTag == <<"s", "c", "r", "i", "p", "t">>
FormTag == <<"f", "o", "r", "m">>
InputTag == <<"i", "n", "p", "u", "t">>
ButtonTag == <<"b", "u", "t", "t", "o", "n">>
EmbedTag == <<"e", "m", "b", "e", "d">>
ImgTag == <<"i", "m", "g">>

\* feilian.html_constants.INTERACTIVE_ELEMENTS
INTERACTIVE_ELEMENTS == {ScriptTag, FormTag, InputTag, ButtonTag, EmbedTag}

\* the first index from i on that holds no white space (Len(s) + 1 if none)
RECURSIVE SkipSpace(_, _)
SkipSpace(s, i) ==
    IF i <= Len(s) /\ s[i] = " " THEN SkipSpace(s, i + 1) ELSE i

\* s[i:].startswith(lit)
MatchAt(s, i, lit) ==
    i + Len(lit) - 1 <= Len(s) /\ SubSeq(s, i, i + Len(lit) - 1) = lit

\* re.search(r"display\s*:\s*none", s)
DisplayNone(s) ==
    \E i \in 1..Len(s) :
        /\ MatchAt(s, i, <<"d", "i", "s", "p", "l", "a", "y">>)
        /\ LET colon == SkipSpace(s, i + 7)
           IN  /\ MatchAt(s, colon, <<":">>)
               /\ MatchAt(s, SkipSpace(s, colon + 1), <<"n", "o", "n", "e">>)

\* the attributes left without the name `key`
Without(attrib, key) == [k \in DOMAIN attrib \ {key} |-> attrib[k]]

\* the three attribute statements of _clean_html, in their order
StripAttributes(node) ==
    LET kept == [k \in DOMAIN node.attrib \cap {"class", "id"} |-> node.attrib[k]]
        no_js == IF "href" \in DOMAIN kept
                    /\ StartsWith(kept["href"],
                           <<"j", "a", "v", "a", "s", "c", "r", "i", "p", "t", ":">>)
                 THEN Without(kept, "href") ELSE kept
        no_src == IF node.tag = ImgTag /\ "src" \in DOMAIN no_js
                  THEN Without(no_js, "src") ELSE no_js
    IN  IF node.attrib = NoAttrib THEN node ELSE [node EXCEPT !.attrib = no_src]

\* _clean_html(ele) with _remove inlined: the list that takes the element's place
\* among its parent's children, <<>> when it is detached.  _remove does nothing
\* for an element without a parent.  Every node iterchildren hands out is an
\* etree._Element, so the first test of _clean_html never succeeds.
_clean_html(node, has_parent) ==
    IF node.tag = CommentTag \/ node.tag \in INTERACTIVE_ELEMENTS
    THEN (IF has_parent THEN <<>> ELSE <<node>>)
    ELSE IF "style" \in DOMAIN node.attrib /\ DisplayNone(node.attrib["style"])
    THEN <<Blank(node)>>
    ELSE <<StripAttributes(node)>>

\* The traversal as it would be over a child list indexed by position: once the
\* visited child is detached the following sibling takes its index and is
\* never visited.
RECURSIVE PostOrderSkipping(_, _)
RECURSIVE VisitSkipping(_, _)
VisitSkipping(kids, i) ==
    IF i > Len(kids) THEN kids
    ELSE LET r == PostOrderSkipping(kids[i], TRUE)
         IN  VisitSkipping(SubSeq(kids, 1, i - 1) \o r \o SubSeq(kids, i + 1, Len(kids)),
                           i + 1)

PostOrderSkipping(node, has_parent) ==
    _clean_html([node EXCEPT !.children = VisitSkipping(node.children, 1)], has_parent)

\* post_order_traversal(tree, _clean_html).  iterchildren fetches the following
\* sibling before it hands out a child, so detaching the child that is being
\* visited skips none of the others.
RECURSIVE post_order_traversal(_, _)
post_order_traversal(node, has_parent) ==
    _clean_html(
        [node EXCEPT !.children =
            Concat([i \in 1..Len(node.children) |->
                       post_order_traversal(node.children[i], TRUE)])],
        has_parent)

\* clean_html(ele): the tree afterwards
clean_html(root) == post_order_traversal(root, FALSE)[1]

----------------------------------------------------------------------------
(* The trees and address lists the address operations are run on. *)

\* most addresses in an include-set
MaxIncludes == 2

PTag == <<"p">>
PreTag == <<"p", "r", "e">>
BTag == <<"b">>
DivTag == <<"d", "i", "v">>
TextX == Some(<<"x">>)

Leaf(tag) == Element(tag, NoAttrib, TextX, None, <<>>)

\* the subtrees hung under a root: <p>x</p>, <pre>x</pre>x, <p><b>x</b></p>,
\* <div><p>x</p><pre>x</pre></div>, <div><p>x</p><p><b>x</b></p></div>
AddrSubtrees ==
    {Leaf(PTag), Element(PreTag, NoAttrib, TextX, TextX, <<>>),
     Element(PTag, NoAttrib, None, None, <<Leaf(BTag)>>),
     Element(DivTag, NoAttrib, None, None, <<Leaf(PTag), Leaf(PreTag)>>),
     Element(DivTag, NoAttrib, None, None,
             <<Leaf(PTag), Element(PTag, NoAttrib, None, None, <<Leaf(BTag)>>)>>)}

AddrTrees ==
    {Element(t, NoAttrib, None, None, kids) :
        t \in {HtmlTag, DivTag}, kids \in ListsUpTo(AddrSubtrees, MaxKids)}

\* the addresses of the elements of a tree
AddressesOf(root) == {y.xpath : y \in Range(traverse(root, FALSE))}

\* an address of no element of any of the trees
ForeignAddress == <<"/", "b", "o", "d", "y">>

\* the include lists tried on a tree: addresses of its own elements and the
\* foreign one, in sorted order without repetition
IncludeLists(root) ==
    {l \in ListsUpTo(AddressesOf(root) \cup {ForeignAddress}, MaxIncludes) :
        \A n \in 1..(Len(l) - 1) : StrLess(l[n], l[n + 1])}

\* the addresses handed to deduplicate_to_prune
AddressPool ==
    UNION {AddressesOf(Element(HtmlTag, NoAttrib, None, None, <<k>>)) : k \in AddrSubtrees}

Idle == <<>>

----------------------------------------------------------------------------
(* deduplicate_to_prune as a run: start -> done. *)

InitDedup ==
    /\ pc = "start"
    /\ xpaths \in ListsUpTo(AddressPool, MaxXPaths)
    /\ result = <<>>
    /\ tree = Idle /\ orig = Idle /\ prev = Idle /\ ele = Idle
    /\ max_tokens = 0 /\ reversed = FALSE /\ tokenizer = "" /\ calls = <<>>
    /\ is_tree = FALSE

Deduplicate ==
    /\ pc = "start"
    /\ result' = deduplicate_to_prune(xpaths)
    /\ pc' = "done"
    /\ UNCHANGED <<tree, orig, prev, ele, max_tokens, reversed, tokenizer, calls,
                   xpaths, is_tree>>

NextDedup == Deduplicate

SpecDedup == InitDedup /\ [][NextDedup]_vars

----------------------------------------------------------------------------
(* traverse as a run: start -> done, or start -> error (ValueError). *)

InitTraverse ==
    /\ pc = "start"
    /\ tree \in AddrTrees
    /\ orig = tree
    /\ is_tree \in BOOLEAN
    /\ result = <<>>
    /\ prev = Idle /\ ele = Idle /\ xpaths = <<>>
    /\ max_tokens = 0 /\ reversed = FALSE /\ tokenizer = "" /\ calls = <<>>

Traverse ==
    /\ pc = "start"
    /\ ~TraverseRaises(tree, is_tree)
    /\ result' = traverse(tree, is_tree)
    /\ pc' = "done"
    /\ UNCHANGED <<tree, orig, prev, ele, max_tokens, reversed, tokenizer, calls,
                   xpaths, is_tree>>

TraverseInvalidRoot ==
    /\ pc = "start"
    /\ TraverseRaises(tree, is_tree)
    /\ pc' = "error"
    /\ UNCHANGED <<tree, orig, prev, ele, max_tokens, reversed, tokenizer, calls,
                   xpaths, result, is_tree>>

NextTraverse == Traverse \/ TraverseInvalidRoot

SpecTraverse == InitTraverse /\ [][NextTraverse]_vars

----------------------------------------------------------------------------
(* extraction_based_pruning run twice on the same tree with the same includes: *)
(* start -> once -> twice.                                                     *)

InitXPath ==
    /\ pc = "start"
    /\ tree \in {t \in AddrTrees : t.tag = HtmlTag}
    /\ orig = tree
    /\ xpaths \in IncludeLists(tree)
    /\ prev = Idle /\ ele = Idle /\ result = <<>>
    /\ max_tokens = 0 /\ reversed = FALSE /\ tokenizer = "" /\ calls = <<>>
    /\ is_tree = FALSE

PruneFirst ==
    /\ pc = "start"
    /\ tree' = extraction_based_pruning(tree, xpaths)
    /\ pc' = "once"
    /\ UNCHANGED <<orig, prev, ele, max_tokens, reversed, tokenizer, calls,
                   xpaths, result, is_tree>>

PruneSecond ==
    /\ pc = "once"
    /\ prev' = tree
    /\ tree' = extraction_based_pruning(tree, xpaths)
    /\ pc' = "twice"
    /\ UNCHANGED <<orig, ele, max_tokens, reversed, tokenizer, calls,
                   xpaths, result, is_tree>>

NextXPath == PruneFirst \/ PruneSecond

SpecXPath == InitXPath /\ [][NextXPath]_vars

----------------------------------------------------------------------------
(* Path relations on whole segments, as the claims state them. *)

\* a is an ancestor path of b, or equal to it
AncestorOrSelf(a, b) ==
    LET sa == Split(a)
        sb == Split(b)
    IN  Len(sa) <= Len(sb) /\ SubSeq(sb, 1, Len(sa)) = sa

\* a equals m or is a true path descendant of m: m followed by "/" and more
CoveredBy(a, m) == a = m \/ StartsWith(a, m \o <<"/">>)

Covers(list, a) == \E n \in 1..Len(list) : CoveredBy(a, list[n])

\* C3: the addresses covered by deduplicate_to_prune(A) are exactly the addresses
\* covered by A, an address being covered when it equals a member or is a true
\* path descendant of one.
C3_CoveragePreserved ==
    pc = "done" =>
        \A a \in AddressPool : Covers(result, a) <=> Covers(xpaths, a)

\* the address that the traversal gives the element at `path` of the input tree
AddressOf(root, path) ==
    (CHOOSE y \in Range(traverse(root, FALSE)) : y.ele = path).xpath

\* C4: after extraction_based_pruning with a non-empty include-set, every element
\* whose address is unrelated (on whole segments) to every include-set member
\* while its parent's address is an ancestor-or-self path of some member is still
\* in the tree, with no children and no text.
C4_UnrelatedSiblingBlanked ==
    (pc = "once" /\ xpaths # <<>>) =>
        \A q \in Paths(orig) \ {<<>>} :
            LET x == AddressOf(orig, q)
                parent == AddressOf(orig, SubSeq(q, 1, Len(q) - 1))
            IN  (/\ \A n \in 1..Len(xpaths) :
                        /\ ~AncestorOrSelf(x, xpaths[n])
                        /\ ~AncestorOrSelf(xpaths[n], x)
                 /\ \E n \in 1..Len(xpaths) : AncestorOrSelf(parent, xpaths[n]))
                => (/\ HasNode(tree, q)
                    /\ NodeAt(tree, q).tag = NodeAt(orig, q).tag
                    /\ NodeAt(tree, q).children = <<>>
                    /\ NodeAt(tree, q).text \in {None, Some(<<>>)})

\* the positions of `result` at which the element at `path` is yielded
YieldsOf(path) == {n \in 1..Len(result) : result[n].ele = path}

\* C5: traverse(tree) yields every element exactly once, after the pairs of all
\* of its descendants, and distinct elements get different addresses.
C5_EachNodeOnceInPostOrder ==
    pc = "done" =>
        /\ \A q \in Paths(tree) : Cardinality(YieldsOf(q)) = 1
        /\ \A m, n \in 1..Len(result) :
               (Len(result[m].ele) > Len(result[n].ele)
                /\ SubSeq(result[m].ele, 1, Len(result[n].ele)) = result[n].ele)
               => m < n
        /\ \A m, n \in 1..Len(result) :
               result[m].ele # result[n].ele => result[m].xpath # result[n].xpath

\* C8: a second extraction_based_pruning with the same include-set leaves the
\* tree exactly as the first one left it.
C8_PruningIdempotent == pc = "twice" => tree = prev

\* the second pass ran on a tree in which the first pass had blanked an element
\* and had kept another one that carries content
C8_Witness ==
    /\ pc = "twice"
    /\ xpaths # <<>>
    /\ prev # orig
    /\ \E q \in Paths(prev) \ {<<>>} : NodeAt(prev, q).text = TextX

----------------------------------------------------------------------------
(* The trees clean_html is run on. *)

\* most children of the root of a tree handed to clean_html
MaxCleanKids == 2

ATag == <<"a">>
ClassValue == <<"c">>
StyleNone == <<"d", "i", "s", "p", "l", "a", "y", ":", "n", "o", "n", "e">>
StyleNoneSpaced ==
    <<"c", ";", "d", "i", "s", "p", "l", "a", "y", " ", ":", " ", " ", "n", "o", "n", "e">>
StyleOther == <<"d", "i", "s", "p", "l", "a", "y", ":", "b", "l", "o", "c", "k">>
HrefScript == <<"j", "a", "v", "a", "s", "c", "r", "i", "p", "t", ":", "x">>
SrcValue == <<"u">>

Attrib1(k, v) == [n \in {k} |-> v]
Attrib2(k1, v1, k2, v2) == [n \in {k1, k2} |-> IF n = k1 THEN v1 ELSE v2]

CleanLeaves ==
    {Element(DivTag, NoAttrib, TextX, None, <<>>),
     Element(DivTag, Attrib2("style", StyleNone, "class", ClassValue), TextX, TextX, <<>>),
     Element(ATag, Attrib2("href", HrefScript, "class", ClassValue), TextX, None, <<>>),
     Element(ImgTag, Attrib2("src", SrcValue, "id", ClassValue), None, None, <<>>),
     Element(ScriptTag, Attrib1("src", SrcValue), TextX, TextX, <<>>),
     Element(CommentTag, NoAttrib, TextX, None, <<>>)}

CleanNested ==
    {Element(DivTag, Attrib1("style", StyleNoneSpaced), None, None,
             <<Element(DivTag, Attrib1("id", ClassValue), TextX, None, <<>>)>>),
     Element(FormTag, NoAttrib, None, None,
             <<Element(DivTag, Attrib1("class", ClassValue), TextX, None, <<>>)>>),
     Element(DivTag, Attrib2("style", StyleOther, "class", ClassValue), None, None,
             <<Element(ATag, Attrib1("href", HrefScript), TextX, None, <<>>)>>),
     Element(DivTag, NoAttrib, None, None,
             <<Element(CommentTag, NoAttrib, TextX, None, <<>>),
               Element(ScriptTag, Attrib1("src", SrcValue), None, None, <<>>)>>),
     Element(DivTag, Attrib1("id", ClassValue), TextX, None,
             <<Element(DivTag, Attrib1("style", StyleNone), TextX, TextX, <<>>)>>)}

\* (tag, attrib) of the roots
CleanRoots ==
    {<<DivTag, NoAttrib>>,
     <<DivTag, Attrib2("style", StyleOther, "class", ClassValue)>>,
     <<DivTag, Attrib1("style", StyleNone)>>,
     <<ATag, Attrib2("href", HrefScript, "id", ClassValue)>>,
     <<ImgTag, Attrib1("src", SrcValue)>>,
     <<FormTag, Attrib2("style", StyleNone, "class", ClassValue)>>,
     <<ScriptTag, Attrib1("src", SrcValue)>>}

CleanTrees ==
    {Element(r[1], r[2], None, None, kids) :
        r \in CleanRoots, kids \in ListsUpTo(CleanLeaves \cup CleanNested, MaxCleanKids)}
    \cup {Element(CommentTag, NoAttrib, TextX, None, <<>>)}

----------------------------------------------------------------------------
(* clean_html run twice on the same tree: start -> once -> twice. *)

InitClean ==
    /\ pc = "start"
    /\ tree \in CleanTrees
    /\ orig = tree
    /\ prev = Idle /\ ele = Idle /\ xpaths = <<>> /\ result = <<>>
    /\ max_tokens = 0 /\ reversed = FALSE /\ tokenizer = "" /\ calls = <<>>
    /\ is_tree = FALSE

CleanFirst ==
    /\ pc = "start"
    /\ tree' = clean_html(tree)
    /\ pc' = "once"
    /\ UNCHANGED <<orig, prev, ele, max_tokens, reversed, tokenizer, calls,
                   xpaths, result, is_tree>>

CleanSecond ==
    /\ pc = "once"
    /\ prev' = tree
    /\ tree' = clean_html(tree)
    /\ pc' = "twice"
    /\ UNCHANGED <<orig, ele, max_tokens, reversed, tokenizer, calls,
                   xpaths, result, is_tree>>

NextClean == CleanFirst \/ CleanSecond

SpecClean == InitClean /\ [][NextClean]_vars

\* C2: after clean_html no element left in the tree, the root included, carries
\* an attribute other than class or id, nor an href that begins with javascript:.
C2_OnlyClassAndId ==
    pc \in {"once", "twice"} =>
        \A q \in Paths(tree) :
            LET attrib == NodeAt(tree, q).attrib
            IN  /\ DOMAIN attrib \subseteq {"class", "id"}
                /\ "href" \in DOMAIN attrib =>
                       ~StartsWith(attrib["href"],
                            <<"j", "a", "v", "a", "s", "c", "r", "i", "p", "t", ":">>)

\* C7: a second clean_html changes nothing: the serialization after two passes
\* is the serialization after one.
C7_CleanIdempotent == pc = "twice" => to_string(tree) = to_string(prev)

\* the second pass ran on a tree from which the first pass had detached an
\* element, and in which it had emptied one and kept one with its text
C7_Witness ==
    /\ pc = "twice"
    /\ Cardinality(Paths(prev)) < Cardinality(Paths(orig))
    /\ \E q \in Paths(prev) \ {<<>>} : NodeAt(prev, q).text = Some(<<>>)
    /\ \E q \in Paths(prev) \ {<<>>} : NodeAt(prev, q).text = TextX

----------------------------------------------------------------------------
(* 4.5 Budget pruner. *)

\* The token counters tried.  "pairs" merges every two characters of the text
\* into one token; "markup" makes one token of each tag and one of each
\* character outside the tags.
Tokenizers == {"pairs", "markup"}

RECURSIVE MarkupTokens(_, _, _)
MarkupTokens(s, i, in_tag) ==
    IF i > Len(s) THEN 0
    ELSE IF s[i] = "<" THEN 1 + MarkupTokens(s, i + 1, TRUE)
    ELSE IF s[i] = ">" THEN MarkupTokens(s, i + 1, FALSE)
    ELSE (IF in_tag THEN 0 ELSE 1) + MarkupTokens(s, i + 1, in_tag)

\* len(tokenizer.encode(text).ids)
Encode(counter, text) ==
    IF counter = "pairs" THEN (Len(text) + 1) \div 2 ELSE MarkupTokens(text, 1, FALSE)

\* len(tokenizer.encode(to_string(ele)).ids)
Tokens(node) == Encode(tokenizer, to_string(node))

\* remove_children(ele)
remove_children(node) == [node EXCEPT !.children = <<>>]

\* The loop as it would be if acc_tokens were raised before the test.
RECURSIVE AccumulateEagerly(_, _, _, _)
AccumulateEagerly(children, i, acc_tokens, required_tokens) ==
    LET child_tokens == Tokens(children[i])
    IN  IF acc_tokens + child_tokens > required_tokens
        THEN [idx |-> i, acc_tokens |-> acc_tokens + child_tokens]
        ELSE IF i = Len(children)
        THEN [idx |-> i, acc_tokens |-> acc_tokens + child_tokens]
        ELSE AccumulateEagerly(children, i + 1, acc_tokens + child_tokens, required_tokens)

\* the for loop of prune_by_tokens from the child at index i on (indexes from 1):
\* idx and acc_tokens when the loop is left, by break or by exhaustion
RECURSIVE Accumulate(_, _, _, _)
Accumulate(children, i, acc_tokens, required_tokens) ==
    LET child_tokens == Tokens(children[i])
    IN  IF acc_tokens + child_tokens > required_tokens
        THEN [idx |-> i, acc_tokens |-> acc_tokens]
        ELSE IF i = Len(children)
        THEN [idx |-> i, acc_tokens |-> acc_tokens + child_tokens]
        ELSE Accumulate(children, i + 1, acc_tokens + child_tokens, required_tokens)

\* most children of the root of a tree handed to prune_by_tokens
MaxPruneKids == 3

EmptyA == Element(ATag, NoAttrib, None, None, <<>>)

\* the subtrees hung under a root: <a/>, <a>x</a>, <a><a/></a>,
\* <a>x<a/><a/></a>, <a><a>x</a><a/></a>
PruneSubtrees ==
    {EmptyA,
     Element(ATag, NoAttrib, TextX, None, <<>>),
     Element(ATag, NoAttrib, None, None, <<EmptyA>>),
     Element(ATag, NoAttrib, TextX, None, <<EmptyA, EmptyA>>),
     Element(ATag, NoAttrib, None, None,
             <<Element(ATag, NoAttrib, TextX, None, <<>>), EmptyA>>)}

PruneTrees ==
    {Element(ATag, NoAttrib, None, None, kids) :
        kids \in ListsUpTo(PruneSubtrees, MaxPruneKids)}

----------------------------------------------------------------------------
(* prune_by_tokens as a run.  The recursive call is the last thing an           *)
(* invocation does, so a run is a chain of invocations: pc = "call" while one   *)
(* is about to start on the element at path `ele` with budget `max_tokens`,     *)
(* "done" when the outermost has returned, "error" when one has raised.         *)

InitPrune ==
    /\ pc = "call"
    /\ tokenizer \in Tokenizers
    /\ tree \in PruneTrees
    /\ orig = tree
    /\ ele = <<>>
    /\ max_tokens \in 0..Encode(tokenizer, to_string(tree))
    /\ reversed \in BOOLEAN
    /\ calls = <<[ele |-> ele, max_tokens |-> max_tokens]>>
    /\ prev = Idle /\ xpaths = <<>> /\ result = <<>> /\ is_tree = FALSE

\* total_token <= max_tokens: nothing to prune
PruneFits ==
    /\ pc = "call"
    /\ Tokens(NodeAt(tree, ele)) <= max_tokens
    /\ pc' = "done"
    /\ UNCHANGED <<tree, orig, prev, ele, max_tokens, reversed, tokenizer, calls,
                   xpaths, result, is_tree>>

\* reversed=True: the parameter hides the builtin, so `reversed(children)` calls
\* a bool and raises TypeError after the children have been detached
PruneReversedRaises ==
    /\ pc = "call"
    /\ Tokens(NodeAt(tree, ele)) > max_tokens
    /\ reversed
    /\ tree' = ReplaceAt(tree, ele, remove_children(NodeAt(tree, ele)))
    /\ pc' = "error"
    /\ UNCHANGED <<orig, prev, ele, max_tokens, reversed, tokenizer, calls,
                   xpaths, result, is_tree>>

\* over budget with no children: return
PruneNoChildren ==
    /\ pc = "call"
    /\ Tokens(NodeAt(tree, ele)) > max_tokens
    /\ ~reversed
    /\ NodeAt(tree, ele).children = <<>>
    /\ pc' = "done"
    /\ UNCHANGED <<tree, orig, prev, ele, max_tokens, reversed, tokenizer, calls,
                   xpaths, result, is_tree>>

\* over budget with children: keep children[: idx + 1] and recurse into `child`
PruneChildren ==
    /\ pc = "call"
    /\ Tokens(NodeAt(tree, ele)) > max_tokens
    /\ ~reversed
    /\ NodeAt(tree, ele).children # <<>>
    /\ LET node == NodeAt(tree, ele)
           children == node.children
           self_tokens == Tokens(remove_children(node))
           required_tokens == max_tokens - self_tokens
           loop == Accumulate(children, 1, 0, required_tokens)
       IN  /\ tree' = ReplaceAt(tree, ele,
                          [node EXCEPT !.children = SubSeq(children, 1, loop.idx)])
           /\ ele' = ele \o <<loop.idx>>
           /\ max_tokens' = required_tokens - loop.acc_tokens
    /\ calls' = Append(calls, [ele |-> ele', max_tokens |-> max_tokens'])
    /\ pc' = "call"
    /\ UNCHANGED <<orig, prev, reversed, tokenizer, xpaths, result, is_tree>>

NextPrune == PruneFits \/ PruneReversedRaises \/ PruneNoChildren \/ PruneChildren

SpecPrune == InitPrune /\ [][NextPrune]_vars

\* the budget the outermost invocation was given
Budget == calls[1].max_tokens

\* C1: with max_tokens at least the token count of the root's childless shell,
\* the serialized root counts at most max_tokens tokens once prune_by_tokens
\* has returned.
C1_WithinBudget ==
    (pc = "done" /\ Budget >= Tokens(remove_children(orig))) => Tokens(tree) <= Budget

\* C6: with reversed=True on an over-budget element with children the call
\* completes without error, and the children left on the element are a
\* contiguous suffix of the original children in document order (the first of
\* them being the one that was trimmed).
C6_FavorRightKeepsSuffix ==
    (reversed /\ Tokens(orig) > Budget /\ orig.children # <<>>) =>
        /\ pc # "error"
        /\ pc = "done" =>
               LET kept == tree.children
                   drop == Len(orig.children) - Len(kept)
               IN  /\ drop >= 0
                   /\ \A i \in 2..Len(kept) : kept[i] = orig.children[drop + i]

\* the tokens of the first n of the children
RECURSIVE RunningSum(_, _)
RunningSum(children, n) ==
    IF n = 0 THEN 0 ELSE RunningSum(children, n - 1) + Tokens(children[n])

\* the indexes at which the running sum of the children's tokens exceeds `remaining`
Exceeding(children, remaining) ==
    {k \in 1..Len(children) : RunningSum(children, k) > remaining}

Min(S) == CHOOSE k \in S : \A m \in S : k <= m

\* C9: favor-left, an invocation on an over-budget element with children c1..cn,
\* remaining = max_tokens - shell tokens, k the first index at which the running
\* sum of the children's tokens exceeds remaining: the element is left with
\* exactly c1..ck, c1..c(k-1) as they were, and the one recursive invocation is
\* on ck with budget remaining minus the tokens of c1..c(k-1).
C9_BoundaryChild ==
    ~reversed =>
        \A n \in 1..Len(calls) :
            LET before == NodeAt(orig, calls[n].ele)
                c == before.children
                remaining == calls[n].max_tokens - Tokens(remove_children(before))
            IN  (/\ n < Len(calls) \/ pc = "done"
                 /\ Tokens(before) > calls[n].max_tokens
                 /\ c # <<>>
                 /\ Exceeding(c, remaining) # {})
                => LET k == Min(Exceeding(c, remaining))
                       now == NodeAt(tree, calls[n].ele).children
                   IN  /\ Len(now) = k
                       /\ \A i \in 1..(k - 1) : now[i] = c[i]
                       /\ now[k].tag = c[k].tag
                       /\ n < Len(calls)
                       /\ calls[n + 1].ele = calls[n].ele \o <<k>>
                       /\ calls[n + 1].max_tokens = remaining - RunningSum(c, k - 1)

\* a finished favor-left run on a root with three children of which the first
\* fits, the second is the boundary child, trimmed in its turn, and the third is
\* dropped
C9_Witness ==
    /\ pc = "done"
    /\ ~reversed
    /\ Len(orig.children) = 3
    /\ Len(calls) >= 3
    /\ calls[2].ele = <<2>>
    /\ Len(tree.children) = 2
    /\ tree.children[2] # orig.children[2]

\* C10: an over-budget element whose childless shell alone uses max_tokens or
\* more (remaining <= 0) carries no children once prune_by_tokens has returned.
C10_BareShell ==
    (/\ pc = "done"
     /\ Tokens(orig) > Budget
     /\ Budget - Tokens(remove_children(orig)) <= 0)
    => tree.children = <<>>

====
